---- MODULE Spec2Model ----
(***************************************************************************)
(* Model of reinforcement_learning/deepracer-complex-simulation/           *)
(* DeepRacer_Configure.ipynb: the notebook's code cells executed top to    *)
(* bottom by one kernel, the ambient state they act on (region, IAM role   *)
(* lookups, local containers and images, simulation jobs, S3 artifacts)    *)
(* and the cleanup commands a user may run by hand afterwards.             *)
(***************************************************************************)
EXTENDS Integers, Sequences, FiniteSets, TLC

\* ---------------------------------------------------------------- bounds
MaxRoleLen == 2
NumContainers == 1
NumImages == 1
NumSims == 1
NumObjects == 1

\* ------------------------------------------------------------- constants
\* characters a role identifier is built from: a name character and the
\* path separator the helpers split on
RoleChars == {"Z", "/"}

RECURSIVE SeqsUpTo(_)
SeqsUpTo(n) ==
  IF n = 0 THEN {<<>>}
  ELSE LET S == SeqsUpTo(n - 1)
       IN  S \cup {Append(s, c) : s \in {t \in S : Len(t) = n - 1}, c \in RoleChars}

\* role identifiers an execution-role lookup can return (never empty)
Roles == SeqsUpTo(MaxRoleLen) \ {<<>>}

\* the name no role has: sagemaker_role before the role cell binds it
Unbound == <<>>

SupportedRegions == {"us-west-2", "us-east-1", "eu-west-1"}

\* values Session().boto_region_name can take in this model
Regions == SupportedRegions \cup {"us-east-2", "ap-northeast-1"}

\* kinds of exception sagemaker.get_execution_role() can raise; the last one
\* is not a subclass of Exception
ExcKinds == {"ClientError", "ValueError", "KeyboardInterrupt"}

RegionMessage ==
  "This notebook uses RoboMaker which is available only in US East (N. Virginia),US West (Oregon) and EU (Ireland). Please switch to one of these regions."

Containers == 1..NumContainers
Images == 1..NumImages
Simulations == 1..NumSims
Objects == 1..NumObjects

\* the image a container was created from
ImageOf(c) == ((c - 1) % NumImages) + 1

\* ------------------------------------------------------------ pure helpers

\* role.split("/")[0]: the part before the first "/"
RECURSIVE RoleName_FirstSegment(_)
RoleName_FirstSegment(role) ==
  IF role = <<>> \/ Head(role) = "/" THEN <<>>
  ELSE <<Head(role)>> \o RoleName_FirstSegment(Tail(role))

\* role.split("/")[-1]: the part of the identifier after its last "/"
RECURSIVE RoleName(_)
RoleName(role) ==
  IF role = <<>> THEN <<>>
  ELSE LET n == Len(role)
       IN  IF role[n] = "/" THEN <<>>
           ELSE Append(RoleName(SubSeq(role, 1, n - 1)), role[n])

\* "https://console.aws.amazon.com/iam/home#/roles/%s" % role_name, with every
\* "/" of the fixed text kept as a character of its own
RoleUrl(name) ==
  <<"https:", "/", "/", "console.aws.amazon.com", "/", "iam", "/", "home#",
    "/", "roles", "/">> \o name

\* "1. Go to IAM console to edit current SageMaker role: [%s](%s).\n"
RoleLine(role) ==
  <<"1. Go to IAM console to edit current SageMaker role: [">>
    \o RoleName(role) \o <<"](">> \o RoleUrl(RoleName(role)) \o <<").\n">>

generate_help_for_robomaker_trust_relationship(role) ==
  RoleLine(role) \o
  <<"2. Next, go to the 'Trust relationships tab' and click on 'Edit Trust Relationship.' \n",
    "3. Replace the JSON blob with the following:\n",
    "sagemaker.amazonaws.com", "robomaker.amazonaws.com", "sts:AssumeRole",
    "4. Once this is complete, click on Update Trust Policy and you are done.">>

generate_s3_write_permission_for_sagemaker_role(role) ==
  RoleLine(role) \o
  <<"2. Next, go to the 'Permissions tab' and click on 'Attach Policy.' \n",
    "3. Search and select '", "AmazonKinesisVideoStreamsFullAccess", "' policy\n">>

generate_kinesis_create_permission_for_sagemaker_role(role) ==
  RoleLine(role) \o
  <<"2. Next, go to the 'Permissions tab' and click on 'Attach Policy.' \n",
    "3. Search and select '", "AmazonS3FullAccess", "' policy\n">>

\* s occurs in t as a run of consecutive characters
Contains(t, s) ==
  \E i \in 1..(Len(t) + 1) :
    /\ i + Len(s) - 1 <= Len(t)
    /\ \A k \in 1..Len(s) : t[i + k - 1] = s[k]


\* the check with a fourth region let through
RegionUnsupported_ExtraRegion(region) ==
  region \notin SupportedRegions \cup {"ap-northeast-1"}

\* the check with "eu-west-1" left out of the list
RegionUnsupported_TwoRegions(region) == region \notin {"us-west-2", "us-east-1"}

\* aws_region not in ["us-west-2", "us-east-1", "eu-west-1"]
RegionUnsupported(region) == region \notin SupportedRegions

\* "except Exception:" in place of the bare "except:"
Catches_ExceptionOnly(kind) == kind # "KeyboardInterrupt"

\* the handlers of the role cell's try statement: a bare "except:" catches
\* every kind of exception
Catches(kind) == TRUE

\* "finally:" in place of "except:": the second lookup runs in both cases
AfterTryBody_Finally(raised) == "role_except"

\* where control goes after the try body: into the except body when the body
\* raised a caught exception, past the statement otherwise
AfterTryBody(raised) == IF raised THEN "role_except" ELSE "role_print"

\* the except body wrapped in a handler of its own
ExceptBodyGuarded_Swallow == TRUE

\* the except body is not itself inside a try: what it raises propagates
ExceptBodyGuarded == FALSE

\* the argument the except branch passes to misc.get_execution_role
FallbackRoleName == "sagemaker"

\* $(docker ps -a -q): every container, running or stopped
ListContainers(all, up) == all

\* $(docker images -q): every image
ListImages(imgs) == imgs

\* the line run through subprocess.check_call instead of "!"
ShellLineRaises_Checked(status) == status = "failed"

\* a "!" shell line that exits non-zero raises nothing in the kernel
ShellLineRaises(status) == FALSE

\* the cell with its "#" removed
DeleteSimulationsCell_Uncommented(jobs) == {}

\* "# deepRacer.delete_all_simulations()": the cell holds only a comment
DeleteSimulationsCell(jobs) == jobs

\* "# deepRacer.delete_s3_simulation_resources()": only a comment
CleanS3Cell(objs) == objs

\* ------------------------------------------------------------------ state
VARIABLES
  pc,             \* the cell (or step of a cell) the kernel runs next
  aws_region,     \* the notebook's aws_region, "unset" until bound
  error,          \* the exception that stopped the run, "none" if none
  sagemaker_role, \* the notebook's sagemaker_role, Unbound until bound
  primaryCalls,   \* calls of sagemaker.get_execution_role() so far
  primaryOut,     \* what the last such call did
  fallbackArgs,   \* the arguments of the calls of misc.get_execution_role
  fallbackOut,    \* what the last such call did
  stdout,         \* what the cells have printed
  displayed,      \* the Markdown each help cell has displayed
  deepRacer,      \* the notebook's deepRacer, "unbound" until constructed
  sims,           \* simulation jobs in the account
  s3objs,         \* simulation artifacts in the S3 bucket
  containers,     \* containers on the host
  running,        \* those of them that are running
  images,         \* images on the host
  rmStatus,       \* exit of the cell's docker rm line
  rmiStatus,      \* exit of the cell's docker rmi line
  lastOp,         \* the operation that acted last
  chosen          \* cleanup commands the user chose to run by hand

vars == <<pc, aws_region, error, sagemaker_role, primaryCalls, primaryOut,
          fallbackArgs, fallbackOut, stdout, displayed, deepRacer, sims,
          s3objs, containers, running, images, rmStatus, rmiStatus, lastOp,
          chosen>>

roleVars == <<sagemaker_role, primaryCalls, primaryOut, fallbackArgs, fallbackOut>>
dockerVars == <<containers, running, images, rmStatus, rmiStatus>>
cloudVars == <<sims, s3objs>>

NotCalled == [ok |-> FALSE, role |-> <<>>, exc |-> "not called"]
Returned(r) == [ok |-> TRUE, role |-> r, exc |-> "none"]
Raised(k) == [ok |-> FALSE, role |-> <<>>, exc |-> k]

HelpSteps == {"trust", "s3", "kinesis"}

Init ==
  /\ pc = "imports"
  /\ aws_region = "unset"
  /\ error = "none"
  /\ sagemaker_role = Unbound
  /\ primaryCalls = 0
  /\ primaryOut = NotCalled
  /\ fallbackArgs = <<>>
  /\ fallbackOut = NotCalled
  /\ stdout = <<>>
  /\ displayed = [h \in HelpSteps |-> <<>>]
  /\ deepRacer = "unbound"
  /\ sims \in SUBSET Simulations
  /\ s3objs \in SUBSET Objects
  /\ containers \in SUBSET Containers
  /\ running \in SUBSET containers
  /\ images \in SUBSET Images
  /\ rmStatus = "not run"
  /\ rmiStatus = "not run"
  /\ lastOp = "none"
  /\ chosen = {}

\* an exception nothing catches ends the run: the cells after it do not execute
Halt(exc) ==
  /\ pc' = "halted"
  /\ error' = exc

\* cell 1: the imports
Imports ==
  /\ pc = "imports"
  /\ pc' = "session"
  /\ lastOp' = "imports"
  /\ UNCHANGED <<aws_region, error, stdout, displayed, deepRacer, chosen>>
  /\ UNCHANGED <<roleVars, dockerVars, cloudVars>>

\* cell 2: start the session, read its region, check the region
InitBasicParameters ==
  /\ pc = "session"
  /\ lastOp' = "region_check"
  /\ \/ /\ Halt("SessionError")
        /\ UNCHANGED aws_region
     \/ \E r \in Regions :
          /\ aws_region' = r
          /\ IF RegionUnsupported(r)
               THEN Halt(RegionMessage)
               ELSE pc' = "role_try" /\ UNCHANGED error
  /\ UNCHANGED <<stdout, displayed, deepRacer, chosen>>
  /\ UNCHANGED <<roleVars, dockerVars, cloudVars>>

\* cell 3, the try body: sagemaker_role = sagemaker.get_execution_role()
RoleTry ==
  /\ pc = "role_try"
  /\ lastOp' = "sagemaker.get_execution_role"
  /\ primaryCalls' = primaryCalls + 1
  /\ \/ \E r \in Roles :
          /\ primaryOut' = Returned(r)
          /\ sagemaker_role' = r
          /\ pc' = AfterTryBody(FALSE)
          /\ UNCHANGED error
     \/ \E k \in ExcKinds :
          /\ primaryOut' = Raised(k)
          /\ UNCHANGED sagemaker_role
          /\ IF Catches(k)
               THEN pc' = AfterTryBody(TRUE) /\ UNCHANGED error
               ELSE Halt(k)
  /\ UNCHANGED <<aws_region, fallbackArgs, fallbackOut, stdout, displayed,
                 deepRacer, chosen>>
  /\ UNCHANGED <<dockerVars, cloudVars>>

\* cell 3, the except body: sagemaker_role = get_execution_role('sagemaker')
RoleExcept ==
  /\ pc = "role_except"
  /\ lastOp' = "misc.get_execution_role"
  /\ fallbackArgs' = Append(fallbackArgs, FallbackRoleName)
  /\ \/ \E r \in Roles :
          /\ fallbackOut' = Returned(r)
          /\ sagemaker_role' = r
          /\ pc' = "role_print"
          /\ UNCHANGED error
     \/ /\ fallbackOut' = Raised("FallbackError")
        /\ UNCHANGED sagemaker_role
        /\ IF ExceptBodyGuarded
             THEN pc' = "role_print" /\ UNCHANGED error
             ELSE Halt("FallbackError")
  /\ UNCHANGED <<aws_region, primaryCalls, primaryOut, stdout, displayed,
                 deepRacer, chosen>>
  /\ UNCHANGED <<dockerVars, cloudVars>>

\* cell 3, last line: print("Using Sagemaker IAM role arn: \n{}".format(...))
RolePrint ==
  /\ pc = "role_print"
  /\ lastOp' = "print"
  /\ stdout' = stdout \o <<"Using Sagemaker IAM role arn: \n">> \o sagemaker_role
  /\ pc' = "help_trust"
  /\ UNCHANGED <<aws_region, error, displayed, deepRacer, chosen>>
  /\ UNCHANGED <<roleVars, dockerVars, cloudVars>>


\* a help cell: display(Markdown(generate_...(sagemaker_role)))
Display(step, text, next) ==
  /\ displayed' = [displayed EXCEPT ![step] = text]
  /\ pc' = next
  /\ lastOp' = step
  /\ UNCHANGED <<aws_region, error, stdout, deepRacer, chosen>>
  /\ UNCHANGED <<roleVars, dockerVars, cloudVars>>

\* cell 4, under "Permission setup for invoking AWS RoboMaker from this notebook"
HelpTrust ==
  /\ pc = "help_trust"
  /\ Display("trust", generate_help_for_robomaker_trust_relationship(sagemaker_role),
             "help_s3")

\* cell 5, under "Permission setup for Sagemaker to S3 bucket"
HelpS3 ==
  /\ pc = "help_s3"
  /\ Display("s3", generate_s3_write_permission_for_sagemaker_role(sagemaker_role),
             "help_kinesis")

\* cell 6, under "Permission setup for Sagemaker to create KinesisVideoStreams"
HelpKinesis ==
  /\ pc = "help_kinesis"
  /\ Display("kinesis", generate_kinesis_create_permission_for_sagemaker_role(sagemaker_role),
             "engine")

\* DeepRacerEngine.__init__: what constructing the engine does to the
\* simulation jobs and to the S3 artifacts
DeepRacerEngine_init_jobs(jobs) == jobs
DeepRacerEngine_init_objs(objs) == objs

\* DeepRacerEngine.delete_all_simulations()
delete_all_simulations(jobs) == {}

\* DeepRacerEngine.delete_s3_simulation_resources()
delete_s3_simulation_resources(objs) == {}

\* cell 7: deepRacer = DeepRacerEngine({'job_name':'None'})
ConstructEngine ==
  /\ pc = "engine"
  /\ deepRacer' = "None"
  /\ stdout' = Append(stdout, "***Deep Racer Engine Backend***")
  /\ sims' = DeepRacerEngine_init_jobs(sims)
  /\ s3objs' = DeepRacerEngine_init_objs(s3objs)
  /\ pc' = "delete_sims_cell"
  /\ lastOp' = "DeepRacerEngine"
  /\ UNCHANGED <<aws_region, error, displayed, chosen>>
  /\ UNCHANGED <<roleVars, dockerVars>>

\* cell 8, under "Delete Simulations"
DeleteSimulationsCellRun ==
  /\ pc = "delete_sims_cell"
  /\ sims' = DeleteSimulationsCell(sims)
  /\ pc' = "docker_rm"
  /\ lastOp' = "delete_sims_cell"
  /\ UNCHANGED <<aws_region, error, stdout, displayed, deepRacer, s3objs, chosen>>
  /\ UNCHANGED <<roleVars, dockerVars>>

\* cell 9, first line: !docker rm -f $(docker ps -a -q);
\* -f removes running containers too; with no container to name, or when the
\* daemon refuses some of them, the line exits non-zero
DockerRm ==
  /\ pc = "docker_rm"
  /\ lastOp' = "docker rm"
  /\ LET args == ListContainers(containers, running)
     IN  \E left \in SUBSET args :
           /\ containers' = containers \ (args \ left)
           /\ running' = running \ (args \ left)
           /\ rmStatus' = IF args # {} /\ left = {} THEN "ok" ELSE "failed"
           /\ IF ShellLineRaises(rmStatus')
                THEN Halt("CalledProcessError")
                ELSE pc' = "docker_rmi" /\ UNCHANGED error
  /\ UNCHANGED <<aws_region, stdout, displayed, deepRacer, images, rmiStatus, chosen>>
  /\ UNCHANGED <<roleVars, cloudVars>>

\* images -f cannot remove: those a running container was created from
InUse(imgs) == {i \in imgs : \E c \in running : ImageOf(c) = i}

\* cell 9, second line: !docker rmi -f $(docker images -q);
DockerRmi ==
  /\ pc = "docker_rmi"
  /\ lastOp' = "docker rmi"
  /\ LET args == ListImages(images)
     IN  \E left \in SUBSET args :
           /\ InUse(args) \subseteq left
           /\ images' = images \ (args \ left)
           /\ rmiStatus' = IF args # {} /\ left = {} THEN "ok" ELSE "failed"
           /\ IF ShellLineRaises(rmiStatus')
                THEN Halt("CalledProcessError")
                ELSE pc' = "clean_s3_cell" /\ UNCHANGED error
  /\ UNCHANGED <<aws_region, stdout, displayed, deepRacer, containers, running,
                 rmStatus, chosen>>
  /\ UNCHANGED <<roleVars, cloudVars>>

\* cell 10, under "Clean your S3 bucket"
CleanS3CellRun ==
  /\ pc = "clean_s3_cell"
  /\ s3objs' = CleanS3Cell(s3objs)
  /\ pc' = "done"
  /\ lastOp' = "clean_s3_cell"
  /\ UNCHANGED <<aws_region, error, stdout, displayed, deepRacer, sims, chosen>>
  /\ UNCHANGED <<roleVars, dockerVars>>

\* the kernel is between cells and deepRacer is bound: the user can type a call
CanType == deepRacer # "unbound" /\ pc \notin {"role_except", "role_print", "docker_rmi"}

\* the user uncomments and runs deepRacer.delete_all_simulations()
UserDeleteAllSimulations ==
  /\ CanType
  /\ sims' = delete_all_simulations(sims)
  /\ chosen' = chosen \cup {"delete_all_simulations"}
  /\ lastOp' = "delete_all_simulations"
  /\ UNCHANGED <<pc, aws_region, error, stdout, displayed, deepRacer, s3objs>>
  /\ UNCHANGED <<roleVars, dockerVars>>

\* the user uncomments and runs deepRacer.delete_s3_simulation_resources()
UserDeleteS3SimulationResources ==
  /\ CanType
  /\ s3objs' = delete_s3_simulation_resources(s3objs)
  /\ chosen' = chosen \cup {"delete_s3_simulation_resources"}
  /\ lastOp' = "delete_s3_simulation_resources"
  /\ UNCHANGED <<pc, aws_region, error, stdout, displayed, deepRacer, sims>>
  /\ UNCHANGED <<roleVars, dockerVars>>

Next ==
  \/ Imports
  \/ InitBasicParameters
  \/ RoleTry
  \/ RoleExcept
  \/ RolePrint
  \/ HelpTrust
  \/ HelpS3
  \/ HelpKinesis
  \/ ConstructEngine
  \/ DeleteSimulationsCellRun
  \/ DockerRm
  \/ DockerRmi
  \/ CleanS3CellRun
  \/ UserDeleteAllSimulations
  \/ UserDeleteS3SimulationResources

Spec == Init /\ [][Next]_vars


\* ------------------------------------------------------------ properties

TypeOK ==
  /\ pc \in {"imports", "session", "role_try", "role_except", "role_print",
             "help_trust", "help_s3", "help_kinesis", "engine",
             "delete_sims_cell", "docker_rm", "docker_rmi", "clean_s3_cell",
             "done", "halted"}
  /\ aws_region \in Regions \cup {"unset"}
  /\ sagemaker_role \in Roles \cup {Unbound}
  /\ primaryCalls \in 0..1
  /\ Len(fallbackArgs) \in 0..1
  /\ sims \subseteq Simulations /\ s3objs \subseteq Objects
  /\ running \subseteq containers /\ containers \subseteq Containers
  /\ images \subseteq Images
  /\ chosen \subseteq {"delete_all_simulations", "delete_s3_simulation_resources"}

NoneDisplayed == \A h \in HelpSteps : displayed[h] = <<>>
PrimaryRaised == primaryOut.exc \in ExcKinds
RoleCellLeft == primaryOut # NotCalled /\ pc \notin {"role_try", "role_except"}

\* C1: in every state whose region is bound to a value outside "us-west-2",
\* "us-east-1", "eu-west-1" the run has stopped with the region check's
\* error, and neither execution-role lookup has been called.
C1_UnsupportedRegionStops ==
  (aws_region # "unset" /\ aws_region \notin {"us-west-2", "us-east-1", "eu-west-1"}) =>
    /\ pc = "halted"
    /\ error = RegionMessage
    /\ primaryCalls = 0
    /\ fallbackArgs = <<>>
    /\ sagemaker_role = Unbound

C1_Witness ==
  /\ aws_region = "ap-northeast-1"
  /\ pc = "halted"
  /\ error = RegionMessage

\* C2: when the session's region is one of the three supported regions the
\* region cell raises nothing and the next step is the role cell's try.
C2_SupportedRegionContinues ==
  [][(pc = "session" /\ aws_region' \in {"us-west-2", "us-east-1", "eu-west-1"})
       => (pc' = "role_try" /\ error' = "none")]_vars

C2_Witness ==
  /\ aws_region = "eu-west-1"
  /\ pc = "role_try"
  /\ error = "none"

\* C3: sagemaker_role is the primary lookup's result when that lookup
\* returned; when it raised, whatever the kind, the fallback has been called
\* with 'sagemaker' and sagemaker_role is the fallback's result if it returned.
C3_RoleResult ==
  /\ primaryOut.ok => sagemaker_role = primaryOut.role
  /\ (PrimaryRaised /\ pc # "role_except") => fallbackArgs = <<"sagemaker">>
  /\ (PrimaryRaised /\ fallbackOut.ok) => sagemaker_role = fallbackOut.role

C3_Witness ==
  /\ primaryOut.exc = "KeyboardInterrupt"
  /\ fallbackOut.ok
  /\ fallbackArgs = <<"sagemaker">>
  /\ sagemaker_role = <<"/", "Z">>

\* C4 as stated: every displayed help text contains the role identifier it
\* was generated from, character for character.
C4_ContainsRoleVerbatim ==
  \A h \in HelpSteps :
    displayed[h] # <<>> => Contains(displayed[h], sagemaker_role)

\* the part of a role identifier after its last "/"
IsLastSegment(role, seg) ==
  \E i \in 1..(Len(role) + 1) :
    /\ seg = SubSeq(role, i, Len(role))
    /\ \A k \in 1..Len(seg) : seg[k] # "/"
    /\ (i = 1 \/ role[i - 1] = "/")

\* C4 amended: every displayed help text contains, character for character,
\* the part of the role identifier after its last "/", both as the link's
\* label and at the end of the link's address.
C4_ContainsRoleName ==
  \A h \in HelpSteps :
    displayed[h] # <<>> =>
      \E seg \in Roles \cup {<<>>} :
        /\ IsLastSegment(sagemaker_role, seg)
        /\ Contains(displayed[h], <<"1. Go to IAM console to edit current SageMaker role: [">>
                                    \o seg \o <<"](">>)
        /\ Contains(displayed[h], <<"roles", "/">> \o seg \o <<").\n">>)

C4_Witness ==
  /\ sagemaker_role = <<"Z", "/">>
  /\ \A h \in HelpSteps : displayed[h] # <<>>

C6_CleanupOptIn ==
  [][chosen' = {} =>
       /\ sims' = sims /\ s3objs' = s3objs
       /\ containers' = containers /\ images' = images
       /\ rmStatus' = "not run" /\ rmiStatus' = "not run"]_vars

\* C7 as stated: the text displayed under the S3 heading names
\* AmazonS3FullAccess and the text displayed under the KinesisVideoStreams
\* heading names AmazonKinesisVideoStreamsFullAccess.
C7_PoliciesNotSwapped ==
  /\ displayed["s3"] # <<>> =>
       /\ Contains(displayed["s3"], <<"AmazonS3FullAccess">>)
       /\ ~Contains(displayed["s3"], <<"AmazonKinesisVideoStreamsFullAccess">>)
  /\ displayed["kinesis"] # <<>> =>
       /\ Contains(displayed["kinesis"], <<"AmazonKinesisVideoStreamsFullAccess">>)
       /\ ~Contains(displayed["kinesis"], <<"AmazonS3FullAccess">>)

\* C8: the primary lookup is called at most once, and exactly once when the
\* role cell has run; the fallback is called at most once, never after a
\* primary that returned, and once the role cell is left it has been called
\* exactly when the primary raised.
C8_CallCounts ==
  /\ primaryCalls <= 1
  /\ Len(fallbackArgs) <= 1
  /\ primaryOut # NotCalled => primaryCalls = 1
  /\ primaryOut.ok => fallbackArgs = <<>>
  /\ Len(fallbackArgs) = 1 => PrimaryRaised
  /\ RoleCellLeft => (Len(fallbackArgs) = 1 <=> PrimaryRaised)
  /\ RoleCellLeft => (fallbackOut # NotCalled <=> PrimaryRaised)

C8_Witness ==
  /\ pc = "done"
  /\ PrimaryRaised
  /\ primaryCalls = 1
  /\ Len(fallbackArgs) = 1

\* C9: when both lookups have raised, the run has stopped with the fallback's
\* error, sagemaker_role is unbound, nothing has been printed, no help text
\* has been displayed and the engine has not been constructed.
C9_FallbackErrorSurfaces ==
  (PrimaryRaised /\ fallbackOut.exc = "FallbackError") =>
    /\ pc = "halted"
    /\ error = "FallbackError"
    /\ sagemaker_role = Unbound
    /\ stdout = <<>>
    /\ NoneDisplayed
    /\ deepRacer = "unbound"

C9_Witness ==
  /\ primaryOut.exc = "ClientError"
  /\ fallbackOut.exc = "FallbackError"
  /\ error = "FallbackError"

\* C10: the image line runs only after the container line and runs next
\* whatever the container line's exit; a container line that succeeds leaves
\* no container; neither line touches the engine, the simulation jobs or the
\* S3 artifacts; once both lines have succeeded no container and no image
\* is left.
C10_DockerCleanup ==
  /\ [](/\ rmiStatus # "not run" => rmStatus # "not run"
        /\ (rmStatus = "ok" /\ rmiStatus = "ok") => (containers = {} /\ images = {}))
  /\ [][/\ (pc = "docker_rm" /\ pc' # pc) =>
             /\ pc' = "docker_rmi" /\ rmStatus' # "not run"
             /\ rmStatus' = "ok" => containers' = {}
             /\ UNCHANGED <<deepRacer, sims, s3objs, chosen, images>>
        /\ (pc = "docker_rmi" /\ pc' # pc) =>
             /\ pc' = "clean_s3_cell" /\ rmiStatus' # "not run"
             /\ UNCHANGED <<deepRacer, sims, s3objs, chosen, containers>>]_vars

C10_Witness ==
  /\ pc = "clean_s3_cell"
  /\ rmStatus = "failed"
  /\ containers # {}
  /\ rmiStatus = "ok"
  /\ images = {}

====
